---- MODULE Spec2Model ----
(***************************************************************************)
(* The request workflow of src/endpoints.py: read_item (POST /v1) and      *)
(* health_check (GET /health), as one state machine.                       *)
(*                                                                         *)
(* One request is followed from its arrival to the HTTP reply.  Every      *)
(* await of the handler is one action; the environment (browser page,      *)
(* solver, extraction function) answers each call with a value and a       *)
(* duration drawn from small sets.                                         *)
(*                                                                         *)
(* Time.  The clock `now` and every value of TimeoutTimer are seconds in   *)
(* fixed point, Resolution units to the second.  The timeouts handed to    *)
(* the page are milliseconds (the handler multiplies by 1000); the one     *)
(* handed to asyncio.wait_for is seconds.                                  *)
(***************************************************************************)
EXTENDS Integers, Sequences, FiniteSets, TLC

VARIABLES
    endpoint,       \* "none" | "v1" | "health": the route that was called
    request,        \* LinkRequest: [url, max_timeout, enable_readability]
    pc,             \* position of read_item
    now,            \* the clock
    start_time,     \* read_item's start_time (milliseconds)
    timer,          \* TimeoutTimer: [deadline]
    page_request,   \* what page.goto returned: NoResponse or [status, headers]
    status,         \* read_item's local `status`
    title,          \* what page.title() returned
    cookies,        \* read_item's local `cookies`
    page_content,   \* read_item's local `page_content`
    extracted_content, \* what trafilatura.extract returned
    readability_obj,   \* read_item's local `readability_obj`
    calls,          \* every call made on a collaborator, in order
    budgeted,       \* the latest call that was handed a timeout:
                    \* [op, left, timeout, need, result]
    raised,         \* the exception read_item raised
    response,       \* the LinkResponse read_item returned
    reply,          \* the HTTP reply of the route
    received_url,   \* request.url as the route received it
    inflight        \* several calls of read_item in flight at once

vars == <<endpoint, request, pc, now, start_time, timer, page_request, status,
          title, cookies, page_content, extracted_content, readability_obj,
          calls, budgeted, raised, response, reply, received_url, inflight>>

----------------------------------------------------------------------------
(* Bounds of the model *)

\* largest max_timeout of a request, in clock units
MaxBudget == 4
\* longest time a navigation, a load-state wait or the solver may need
MaxDur == 2
\* longest time a page query (title, cookies, content, evaluate) may need
MaxQueryDur == 1
\* longest url of the specification of the url sanitizing
MaxUrlLen == 3
\* number of requests in flight at once in the specification of concurrency
NumRequests == 2

(* Program constants *)

\* timer.remaining() * 1000: milliseconds per second
MillisPerSecond == 1000
\* random.randint(100, 300): the pause before navigation, milliseconds
JitterMin == 100
JitterMax == 300
\* clock units per second: one unit is the shortest pause, a tenth of a second
Resolution == MillisPerSecond \div JitterMin
\* HTTPStatus.OK
OK == 200
\* status_code=408
RequestTimeout == 408
\* status_code=500
InternalServerError == 500

----------------------------------------------------------------------------
(* Values of the environment *)

\* Optional values: None is the empty sequence, a value v is <<v>>
None == <<>>
Some(v) == <<v>>

\* the page titles the browser may report; the last two are no challenge titles
Titles == {"Just a moment...", "Just a moment", "Example Domain"}

\* src.consts.CHALLENGE_TITLES: the known interstitial titles
CHALLENGE_TITLES == {"Just a moment...", "DDoS-Guard"}

\* a URL is a sequence of characters
Quote == "\""
Whitespace == {" ", "\t"}
PlainUrl == <<"a", ".", "b">>
QuotedUrl == <<" ", Quote, "a", Quote, "b", Quote, " ">>
Urls == {PlainUrl, QuotedUrl}
\* LinkRequest.model_construct(url="https://google.com")
ProbeUrl == <<"h","t","t","p","s",":","/","/","g","o","o","g","l","e",".","c","o","m">>
RedirectedUrl == <<"c", ".", "d">>

\* a navigation response: page.goto returns one, or None
NoneResponse == [isNone |-> TRUE, status |-> 0, headers |-> {}]
Response(st, hd) == [isNone |-> FALSE, status |-> st, headers |-> hd]
SomeHeaders == {<<"server", "nginx">>}
Responses == {NoneResponse} \cup {Response(st, SomeHeaders) : st \in {OK, 403}}

CookieJars == {<<[name |-> "cf_clearance", value |-> "x"]>>}
Contents == {"<html><p>x</p></html>"}
Extractions == {None, Some(""), Some("x")}
\* what the page reports when the response is built: navigator.userAgent and
\* page.url, which is the requested url or the one a redirect led to
PageReports(url) ==
    {[user_agent |-> "Mozilla/5.0 Firefox", url |-> url],
     [user_agent |-> "Mozilla/5.0 Camoufox", url |-> RedirectedUrl]}

\* the time an operation needs, in clock units
Durations == 0..MaxDur
QueryDurations == 0..MaxQueryDur
\* LinkRequest.max_timeout > 0, in clock units
Budgets == 1..MaxBudget

----------------------------------------------------------------------------
(* Pure parts of the handler *)

\* request.url.replace('"', ""): every double quote is removed
RECURSIVE RemoveQuotes(_)
RemoveQuotes(s) ==
    IF s = <<>> THEN <<>>
    ELSE IF Head(s) = Quote THEN RemoveQuotes(Tail(s))
    ELSE <<Head(s)>> \o RemoveQuotes(Tail(s))

\* str.strip(): leading and trailing whitespace is removed
RECURSIVE LStrip(_)
LStrip(s) ==
    IF s = <<>> THEN <<>>
    ELSE IF Head(s) \in Whitespace THEN LStrip(Tail(s))
    ELSE s

RECURSIVE RStrip(_)
RStrip(s) ==
    IF s = <<>> THEN <<>>
    ELSE IF s[Len(s)] \in Whitespace THEN RStrip(SubSeq(s, 1, Len(s) - 1))
    ELSE s

Strip(s) == RStrip(LStrip(s))

\* request.url = request.url.replace('"', ""): the whitespace is kept
SanitizeUrlWithoutStrip(url) == RemoveQuotes(url)

\* request.url = request.url.replace('"', "").strip()
SanitizeUrl(url) == Strip(RemoveQuotes(url))

\* TimeoutTimer(duration=...), created at time t
TimeoutTimer(duration, t) == [deadline |-> t + duration]

\* timer.remaining(): max(deadline - now, 0), seconds
Remaining(tm, t) == IF tm.deadline - t > 0 THEN tm.deadline - t ELSE 0

\* seconds (clock units) to milliseconds and back
SecondsToMillis(s) == (s * MillisPerSecond) \div Resolution
MillisToClock(ms) == (ms * Resolution) \div MillisPerSecond

\* timeout=timer.remaining(): the seconds are handed on as they are
PageTimeoutInSeconds(tm, t) == Remaining(tm, t)

\* timeout=timer.remaining() * 1000: what goto and wait_for_load_state are handed
PageTimeout(tm, t) == SecondsToMillis(Remaining(tm, t))

\* timeout=timer.remaining(): what asyncio.wait_for is handed
SolverTimeout(tm, t) == Remaining(tm, t)

\* int(time.time() * 1000)
StartTimeMillis(t) == SecondsToMillis(t)

\* A page call handed `timeout` ms that needs `need` ms completes unless the
\* timeout runs out first; a timeout of 0 disables the timeout.
PageCallCompletes(timeout, need) == timeout = 0 \/ need <= timeout

\* asyncio.wait_for(aw, timeout): with timeout <= 0 the awaitable is cancelled
\* before it runs and TimeoutError is raised at once.
WaitForCompletes(timeout, need) == timeout > 0 /\ need <= timeout

\* the exception a page call raises when its timeout runs out: the class is the
\* browser library's.  Playwright's TimeoutError derives from its own Error, not
\* from the builtin TimeoutError; a page wrapper may raise the builtin one.
PageTimeoutErrors == {"TimeoutError", "playwright.TimeoutError"}

\* a lookup that also takes a title that only starts like a challenge title
ChallengeDetectedLoosely(ttl) == ttl \in CHALLENGE_TITLES \cup {"Just a moment"}

\* await dep.page.title() in CHALLENGE_TITLES
ChallengeDetected(ttl) == ttl \in CHALLENGE_TITLES

\* `if extracted_content is not None:` -- an empty string passes
IsNotNone(x) == x /= None

\* `if extracted_content:` -- None and "" are both false
Truthy(x) == x /= None /\ x[1] /= ""

\* Readability(content=extracted_content) if extracted_content else None
ReadabilityOf(x) == IF Truthy(x) THEN Some([content |-> x[1]]) ELSE None

HTTPException(code, detail) ==
    [type |-> "HTTPException", status_code |-> code, detail |-> detail]
OtherException(type) == [type |-> type, status_code |-> 0, detail |-> ""]

\* `except Exception as e:` -- every exception becomes the 408
ExceptAnyException(type) ==
    HTTPException(RequestTimeout, "Timed out while solving the challenge")

\* except TimeoutError as e: raise HTTPException(408, ...) from e
\* every other exception leaves read_item as it is
ExceptTimeoutError(type) ==
    IF type = "TimeoutError"
    THEN HTTPException(RequestTimeout, "Timed out while solving the challenge")
    ELSE OtherException(type)

LinkRequest(url, max_timeout, enable_readability) ==
    [url |-> url, max_timeout |-> max_timeout,
     enable_readability |-> enable_readability]
Requests ==
    {LinkRequest(u, d, r) : u \in Urls, d \in Budgets, r \in BOOLEAN}
\* LinkRequest.model_construct(url="https://google.com"): the other fields take
\* the defaults of src.models.LinkRequest
ProbeRequests ==
    {LinkRequest(ProbeUrl, d, r) : d \in Budgets, r \in BOOLEAN}

\* the records of the calls made on the collaborators
Call(op) == Append(calls, op)
\* a call handed `timeout` when `left` remained, for an operation that needs
\* `need`; result is "completed", "raised" or "timed out"
Budgeted(op, left, timeout, need, result) ==
    [op |-> op, left |-> left, timeout |-> timeout, need |-> need,
     result |-> result]
NoCall == Budgeted("none", 0, 0, 0, "none")

----------------------------------------------------------------------------
(* The state before a request *)

InitOne ==
    /\ endpoint = "none"
    /\ request = LinkRequest(<<>>, 0, FALSE)
    /\ pc = "idle"
    /\ now = 0
    /\ start_time = 0
    /\ timer = [deadline |-> 0]
    /\ page_request = NoneResponse
    /\ status = 0
    /\ title = ""
    /\ cookies = <<>>
    /\ page_content = ""
    /\ extracted_content = None
    /\ readability_obj = None
    /\ calls = <<>>
    /\ budgeted = NoCall
    /\ raised = None
    /\ response = None
    /\ reply = None
    /\ received_url = <<>>

Init == InitOne /\ inflight = <<>>

locals == <<page_request, status, title, cookies, page_content,
            extracted_content, readability_obj>>

----------------------------------------------------------------------------
(* read_item *)

\* lines 58-62: start_time, the timer, the sanitized url
ReadItemEntry(req) ==
    /\ start_time' = StartTimeMillis(now)
    /\ timer' = TimeoutTimer(req.max_timeout, now)
    /\ received_url' = req.url
    /\ request' = [req EXCEPT !.url = SanitizeUrl(req.url)]
    /\ pc' = "jitter"
    /\ UNCHANGED <<now, locals, calls, budgeted, raised, response, reply,
                   inflight>>

\* POST /v1
PostV1 ==
    /\ pc = "idle"
    /\ endpoint' = "v1"
    /\ \E req \in Requests : ReadItemEntry(req)

\* lines 41-44: GET /health calls read_item with the probe request
HealthCheckCall ==
    /\ pc = "idle"
    /\ endpoint' = "health"
    /\ \E req \in ProbeRequests : ReadItemEntry(req)

\* the handler logs the exception and goes on after the try block
LogAndGoOn(type) ==
    /\ raised' = Some(ExceptTimeoutError(type))
    /\ pc' = "cookies"

\* an exception of class `type` is raised inside the try block (lines 63-97)
RaiseInTry(type) ==
    /\ raised' = Some(ExceptTimeoutError(type))
    /\ pc' = "raised"

\* lines 64-65: the mouse move and the pause; neither is handed the budget
Jitter ==
    /\ pc = "jitter"
    /\ \E ms \in JitterMin..JitterMax :
        \* the pauses that are whole clock units
        /\ MillisToClock(ms) * MillisPerSecond = ms * Resolution
        /\ now' = now + MillisToClock(ms)
    /\ calls' = calls \o <<"mouse.move", "wait_for_timeout">>
    /\ pc' = "goto"
    /\ UNCHANGED <<endpoint, request, received_url, inflight, start_time, timer, locals, budgeted,
                   raised, response, reply>>

\* a call on the page that is handed timer.remaining() * 1000: it completes
\* after `need`, or its timeout runs out first
PageCall(op, need, completes, fails, times_out) ==
    LET left == Remaining(timer, now)
        timeout == PageTimeout(timer, now)
    IN /\ calls' = Call(op)
       /\ IF PageCallCompletes(timeout, SecondsToMillis(need))
          THEN /\ now' = now + need
               /\ \/ /\ budgeted' = Budgeted(op, left, timeout, need, "completed")
                     /\ completes
                  \/ /\ budgeted' = Budgeted(op, left, timeout, need, "raised")
                     /\ fails
          ELSE /\ now' = now + MillisToClock(timeout)
               /\ budgeted' = Budgeted(op, left, timeout, need, "timed out")
               /\ times_out

\* status = HTTPStatus.OK: the status of the navigation response is dropped
StatusAlwaysOK(r) == OK

\* status = page_request.status if page_request else HTTPStatus.OK
StatusOf(r) == IF r.isNone THEN OK ELSE r.status

\* lines 67-70: page.goto and the status of its response
Goto ==
    /\ pc = "goto"
    /\ \E need \in Durations :
        PageCall("goto", need,
            \E r \in Responses :
                /\ page_request' = r
                /\ status' = StatusOf(r)
                /\ pc' = "domcontentloaded"
                /\ UNCHANGED raised,
            /\ RaiseInTry("playwright.Error")
            /\ UNCHANGED <<page_request, status>>,
            /\ \E e \in PageTimeoutErrors : RaiseInTry(e)
            /\ UNCHANGED <<page_request, status>>)
    /\ UNCHANGED <<endpoint, request, received_url, inflight, start_time, timer, title, cookies,
                   page_content, extracted_content, readability_obj,
                   response, reply>>

\* lines 71-76: one wait_for_load_state
WaitForLoadState(at, op, next) ==
    /\ pc = at
    /\ \E need \in Durations :
        PageCall(op, need,
            pc' = next /\ UNCHANGED raised,
            RaiseInTry("playwright.Error"),
            \E e \in PageTimeoutErrors : RaiseInTry(e))
    /\ UNCHANGED <<endpoint, request, received_url, inflight, start_time, timer, locals, response, reply>>

\* lines 71-73
WaitDomContentLoaded ==
    WaitForLoadState("domcontentloaded", "wait_for_load_state:domcontentloaded",
                     "networkidle")

\* after the network-idle wait the title is not looked at
WaitNetworkIdleThenCookies ==
    WaitForLoadState("networkidle", "wait_for_load_state:networkidle", "cookies")

\* lines 74-76
WaitNetworkIdle ==
    WaitForLoadState("networkidle", "wait_for_load_state:networkidle", "title")

\* line 78: the title is read and looked up in CHALLENGE_TITLES
ReadTitle ==
    /\ pc = "title"
    /\ \E ttl \in Titles, d \in QueryDurations :
        /\ title' = ttl
        /\ now' = now + d
        /\ pc' = IF ChallengeDetected(ttl) THEN "solve" ELSE "cookies"
    /\ calls' = Call("title")
    /\ UNCHANGED <<endpoint, request, received_url, inflight, start_time, timer, page_request, status,
                   cookies, page_content, extracted_content, readability_obj,
                   budgeted, raised, response, reply>>

\* the status of the navigation is kept after the solve
SolvedStatusKept(st) == st

\* line 90: status = HTTPStatus.OK once the solver has completed
SolvedStatus(st) == OK

\* lines 79-91: solve_captcha under wait_for(timeout=timer.remaining())
Solve ==
    /\ pc = "solve"
    /\ calls' = Call("solve_captcha")
    /\ LET left == Remaining(timer, now)
           timeout == SolverTimeout(timer, now)
       IN \E need \in Durations :
           IF WaitForCompletes(timeout, need)
           THEN /\ now' = now + need
                /\ \/ /\ budgeted' = Budgeted("solve_captcha", left, timeout,
                                               need, "completed")
                      /\ status' = SolvedStatus(status)
                      /\ pc' = "cookies"
                      /\ UNCHANGED raised
                   \/ /\ budgeted' = Budgeted("solve_captcha", left, timeout,
                                               need, "raised")
                      /\ RaiseInTry("SolverError")
                      /\ UNCHANGED status
           ELSE /\ now' = now + timeout
                /\ budgeted' = Budgeted("solve_captcha", left, timeout, need,
                                        "timed out")
                /\ RaiseInTry("TimeoutError")
                /\ UNCHANGED status
    /\ UNCHANGED <<endpoint, request, received_url, inflight, start_time, timer, page_request, title,
                   cookies, page_content, extracted_content, readability_obj,
                   response, reply>>

\* The queries on the page and its context (title, cookies, content, evaluate)
\* return a value after some time: they are handed no timeout, and the browser
\* capability gives them no failure of their own.

\* line 99
GetCookies ==
    /\ pc = "cookies"
    /\ \E c \in CookieJars, d \in QueryDurations :
        /\ cookies' = c
        /\ now' = now + d
    /\ calls' = Call("cookies")
    /\ pc' = "content"
    /\ UNCHANGED <<endpoint, request, received_url, inflight, start_time, timer, page_request, status,
                   title, page_content, extracted_content, readability_obj,
                   budgeted, raised, response, reply>>

\* line 100
GetContent ==
    /\ pc = "content"
    /\ \E c \in Contents, d \in QueryDurations :
        /\ page_content' = c
        /\ now' = now + d
    /\ calls' = Call("content")
    /\ pc' = "extract"
    /\ UNCHANGED <<endpoint, request, received_url, inflight, start_time, timer, page_request, status,
                   title, cookies, extracted_content, readability_obj,
                   budgeted, raised, response, reply>>

\* the flag of the request is not looked at
AlwaysExtract(req) == TRUE

\* line 104: if request.enable_readability
ShouldExtract(req) == req.enable_readability

\* lines 102-111: trafilatura.extract, only when the request enables it
Extract ==
    /\ pc = "extract"
    /\ IF ShouldExtract(request)
       THEN \E x \in Extractions :
               /\ extracted_content' = x
               /\ readability_obj' = ReadabilityOf(x)
               /\ calls' = Call("extract")
       ELSE /\ readability_obj' = None
            /\ UNCHANGED <<extracted_content, calls>>
    /\ pc' = "return"
    /\ UNCHANGED <<endpoint, request, received_url, inflight, now, start_time, timer, page_request,
                   status, title, cookies, page_content, budgeted, raised,
                   response, reply>>

\* headers={}: the headers of the navigation response are dropped
HeadersAlwaysEmpty(r) == {}

\* headers=page_request.headers if page_request else {}
HeadersOf(r) == IF r.isNone THEN {} ELSE r.headers

Solution(user_agent, url) ==
    [user_agent |-> user_agent, url |-> url, status |-> status,
     cookies |-> cookies, headers |-> HeadersOf(page_request),
     response |-> page_content, readability |-> readability_obj]

LinkResponse(solution) ==
    [message |-> "Success", solution |-> solution, start_timestamp |-> start_time]

\* lines 113-125: the user agent is queried and the response is built
Return ==
    /\ pc = "return"
    /\ \E p \in PageReports(request.url), d \in QueryDurations :
        /\ now' = now + d
        /\ response' = Some(LinkResponse(Solution(p.user_agent, p.url)))
    /\ calls' = Call("evaluate")
    /\ pc' = "returned"
    /\ UNCHANGED <<endpoint, request, received_url, inflight, start_time, timer, locals, budgeted,
                   raised, reply>>

----------------------------------------------------------------------------
(* The HTTP replies *)

Reply(code, detail, body) == [code |-> code, detail |-> detail, body |-> body]

\* what the framework sends for an exception that leaves a route
ReplyOfException(e) ==
    IF e.type = "HTTPException"
    THEN Reply(e.status_code, e.detail, None)
    ELSE Reply(InternalServerError, "Internal Server Error", None)

\* @router.post("/v1"): the LinkResponse, or the exception of read_item
V1Reply ==
    /\ endpoint = "v1"
    /\ pc \in {"returned", "raised"}
    /\ reply = None
    /\ reply' = Some(IF pc = "raised" THEN ReplyOfException(raised[1])
                     ELSE Reply(OK, "", response))
    /\ pc' = "replied"
    /\ UNCHANGED <<endpoint, request, received_url, inflight, now, start_time, timer, locals, calls,
                   budgeted, raised, response>>

\* the status of the probe is not looked at
HealthCheckResultUnchecked(resp) ==
    Reply(OK, "", Some([user_agent |-> resp.solution.user_agent]))

\* lines 46-52: the status of the probe decides the reply of GET /health
HealthCheckResult(resp) ==
    IF resp.solution.status /= OK
    THEN ReplyOfException(HTTPException(InternalServerError, "Health check failed"))
    ELSE Reply(OK, "", Some([user_agent |-> resp.solution.user_agent]))

\* health_check turns every failure of the probe into "Health check failed"
HealthCheckReplyCatchingAll ==
    /\ endpoint = "health"
    /\ pc \in {"returned", "raised"}
    /\ reply = None
    /\ reply' = Some(IF pc = "raised"
                     THEN Reply(InternalServerError, "Health check failed", None)
                     ELSE HealthCheckResult(response[1]))
    /\ pc' = "replied"
    /\ UNCHANGED <<endpoint, request, received_url, inflight, now, start_time,
                   timer, locals, calls, budgeted, raised, response>>

\* lines 41-52: an exception of read_item passes through health_check
HealthCheckReply ==
    /\ endpoint = "health"
    /\ pc \in {"returned", "raised"}
    /\ reply = None
    /\ reply' = Some(IF pc = "raised" THEN ReplyOfException(raised[1])
                     ELSE HealthCheckResult(response[1]))
    /\ pc' = "replied"
    /\ UNCHANGED <<endpoint, request, received_url, inflight, now, start_time, timer, locals, calls,
                   budgeted, raised, response>>

----------------------------------------------------------------------------

Next ==
    \/ PostV1
    \/ HealthCheckCall
    \/ Jitter
    \/ Goto
    \/ WaitDomContentLoaded
    \/ WaitNetworkIdle
    \/ ReadTitle
    \/ Solve
    \/ GetCookies
    \/ GetContent
    \/ Extract
    \/ Return
    \/ V1Reply
    \/ HealthCheckReply

Spec == Init /\ [][Next]_vars

----------------------------------------------------------------------------
(* The url sanitizing, on every short url *)

UrlChars == {"a", "'", Quote, " "}
AllUrls == UNION {[1..n -> UrlChars] : n \in 0..MaxUrlLen}

\* POST /v1 with any short url
PostV1AnyUrl ==
    /\ pc = "idle"
    /\ endpoint' = "v1"
    /\ \E u \in AllUrls, d \in Budgets : ReadItemEntry(LinkRequest(u, d, FALSE))

NextUrl ==
    \/ PostV1AnyUrl
    \/ Jitter
    \/ Goto

SpecUrl == Init /\ [][NextUrl]_vars

----------------------------------------------------------------------------
(* Several requests in flight.  Each call of read_item is a coroutine of its *)
(* own: its position and its locals are its own, and the calls interleave at *)
(* their awaits.  How long a call takes is left open here: a budgeted call   *)
(* completes, raises or times out.                                           *)

RequestIds == 1..NumRequests

\* the budgets of the requests in flight: the smallest and the largest
SomeBudgets == {1, MaxBudget}

\* one timer for every call: the timer of a later call replaces it
SharedTimer(r) == 1

\* line 60: `timer` is a local of the call of read_item for request r
TimerOf(r) == r

\* dep: CamoufoxDep -- get_camoufox gives every request a session and page
DepOf(r) == r

\* a call of read_item: its position and the locals that outlive the try block
Coroutine(p, d, st, exc) ==
    [pc |-> p, max_timeout |-> d, status |-> st, raised |-> exc]

InitMany ==
    /\ InitOne
    /\ inflight =
          [reqs |-> [r \in RequestIds |-> Coroutine("idle", 0, 0, None)],
           timers |-> [r \in RequestIds |-> [deadline |-> 0]],
           users |-> [h \in RequestIds |-> {}]]

one == <<endpoint, request, pc, now, start_time, timer, locals, calls,
         budgeted, raised, response, reply, received_url>>

\* request r moves on, and makes a call on its page if `on_page`
Resume(r, co, on_page) ==
    /\ inflight' =
          [inflight EXCEPT
              !.reqs[r] = co,
              !.users[DepOf(r)] = IF on_page THEN @ \cup {r} ELSE @]
    /\ UNCHANGED one

At(r) == inflight.reqs[r].pc
Move(r, p) == [inflight.reqs[r] EXCEPT !.pc = p]
Fail(r, type) ==
    [inflight.reqs[r] EXCEPT !.pc = "raised",
                             !.raised = Some(ExceptTimeoutError(type))]

\* lines 58-62 of request r
ManyEntry(r) ==
    /\ At(r) = "idle"
    /\ \E d \in SomeBudgets :
        /\ inflight' =
              [inflight EXCEPT
                  !.reqs[r] = Coroutine("jitter", d, 0, None),
                  !.timers[TimerOf(r)] = TimeoutTimer(d, now)]
    /\ UNCHANGED one

\* lines 64-65 of request r
ManyJitter(r) ==
    /\ At(r) = "jitter"
    /\ Resume(r, Move(r, "goto"), TRUE)

\* lines 67-70 of request r
ManyGoto(r) ==
    /\ At(r) = "goto"
    /\ \/ \E resp \in Responses :
            Resume(r, [Move(r, "domcontentloaded") EXCEPT !.status = StatusOf(resp)],
                   TRUE)
       \/ Resume(r, Fail(r, "playwright.Error"), TRUE)
       \/ \E e \in PageTimeoutErrors : Resume(r, Fail(r, e), TRUE)

\* lines 71-76 of request r
ManyWaitForLoadState(r) ==
    /\ At(r) \in {"domcontentloaded", "networkidle"}
    /\ \/ Resume(r, Move(r, IF At(r) = "domcontentloaded" THEN "networkidle"
                             ELSE "title"), TRUE)
       \/ Resume(r, Fail(r, "playwright.Error"), TRUE)
       \/ \E e \in PageTimeoutErrors : Resume(r, Fail(r, e), TRUE)

\* line 78 of request r
ManyReadTitle(r) ==
    /\ At(r) = "title"
    /\ \E ttl \in Titles :
        Resume(r, Move(r, IF ChallengeDetected(ttl) THEN "solve" ELSE "cookies"),
               TRUE)

\* lines 79-91 of request r
ManySolve(r) ==
    /\ At(r) = "solve"
    /\ \/ Resume(r, [Move(r, "cookies") EXCEPT
                         !.status = SolvedStatus(inflight.reqs[r].status)], TRUE)
       \/ Resume(r, Fail(r, "SolverError"), TRUE)
       \/ Resume(r, Fail(r, "TimeoutError"), TRUE)

\* lines 99-100 of request r
ManyQuery(r) ==
    /\ At(r) \in {"cookies", "content"}
    /\ Resume(r, Move(r, IF At(r) = "cookies" THEN "content" ELSE "extract"), TRUE)

\* lines 102-111 of request r
ManyExtract(r) ==
    /\ At(r) = "extract"
    /\ Resume(r, Move(r, "return"), FALSE)

\* lines 113-125 of request r
ManyReturn(r) ==
    /\ At(r) = "return"
    /\ Resume(r, Move(r, "returned"), TRUE)

NextMany ==
    \E r \in RequestIds :
        \/ ManyEntry(r)
        \/ ManyJitter(r)
        \/ ManyGoto(r)
        \/ ManyWaitForLoadState(r)
        \/ ManyReadTitle(r)
        \/ ManySolve(r)
        \/ ManyQuery(r)
        \/ ManyExtract(r)
        \/ ManyReturn(r)

SpecMany == InitMany /\ [][NextMany]_vars

----------------------------------------------------------------------------
(* What the claims speak of *)

\* how often `op` was called on its collaborator
Count(op) == Cardinality({i \in DOMAIN calls : calls[i] = op})

\* read_item has ended: it returned, or an exception left it
Ended == pc \in {"returned", "raised", "replied"}

TimeoutDetail == "Timed out while solving the challenge"

\* read_item ended in the timeout failure
Failed408 ==
    /\ pc \in {"raised", "replied"}
    /\ raised = Some(HTTPException(RequestTimeout, TimeoutDetail))
    /\ response = None

\* the latest budgeted call needed more time than remained when it was issued
Overran == budgeted.op /= "none" /\ budgeted.need > budgeted.left

(* C1: on POST /v1, a budgeted stage (goto, either load-state wait, the solver *)
(* call) that needs more than the budget remaining when it was issued ends the *)
(* request in the timeout failure, and the caller receives 408 with the fixed  *)
(* detail; no other outcome is produced.                                       *)
C1_StageTimeoutGives408 ==
    (endpoint = "v1" /\ Overran) =>
        /\ Failed408
        /\ reply /= None => reply = Some(Reply(RequestTimeout, TimeoutDetail, None))

(* C2: a request never hangs past its budget: read_item has returned or raised *)
(* no later than its deadline plus the longest pre-navigation pause.           *)
C2_EndsByDeadlinePlusJitter ==
    Ended => now <= timer.deadline + MillisToClock(JitterMax)

(* C3: no navigation, wait or solve call is issued with the budget exhausted: *)
(* every budgeted call is handed a timeout greater than zero and is issued    *)
(* before the deadline.                                                       *)
C3_NoCallWithExhaustedBudget ==
    budgeted.op /= "none" => budgeted.timeout > 0 /\ budgeted.left > 0

\* the title was read and is a member of the known challenge titles
TitleRead == Count("title") = 1
TitleMatches == TitleRead /\ title \in CHALLENGE_TITLES

(* C4: the solver is invoked once if the title read after the network-idle   *)
(* wait equals a known challenge title, and never otherwise; it is never     *)
(* invoked a second time, whatever its outcome.                              *)
C4_SolverOnceIffTitleMatches ==
    /\ Count("solve_captcha") <= 1
    /\ Count("solve_captcha") = 1 => TitleMatches
    /\ (TitleMatches /\ pc /= "solve") => Count("solve_captcha") = 1
    /\ pc = "solve" => TitleMatches

C4_Witness ==
    /\ pc = "replied"
    /\ title = "Just a moment..."
    /\ Count("solve_captcha") = 1
    /\ budgeted.result = "completed"

\* the solver was called and completed within the budget that remained
SolverCompleted ==
    /\ budgeted.op = "solve_captcha"
    /\ budgeted.result = "completed"

(* C5: when a challenge is detected and the solver completes within the     *)
(* remaining budget, the request succeeds (200) and solution.status is OK,  *)
(* whatever status the navigation response carried.                         *)
C5_SolvedGivesOK ==
    SolverCompleted =>
        /\ raised = None
        /\ status = OK
        /\ response /= None =>
              /\ response[1].message = "Success"
              /\ response[1].solution.status = OK
        /\ (endpoint = "v1" /\ reply /= None) => reply = Some(Reply(OK, "", response))

C5_Witness ==
    /\ endpoint = "v1"
    /\ pc = "replied"
    /\ SolverCompleted
    /\ page_request.status = 403
    /\ reply[1].code = OK
    /\ reply[1].body[1].solution.status = OK

(* C6: with enableReadability = false the extraction function is never     *)
(* called and the readability field of a successful response is absent.    *)
C6_NoExtractionWhenDisabled ==
    (endpoint /= "none" /\ ~request.enable_readability) =>
        /\ Count("extract") = 0
        /\ readability_obj = None
        /\ response /= None => response[1].solution.readability = None
        /\ (endpoint = "v1" /\ reply /= None /\ reply[1].code = OK) =>
              reply[1].body[1].solution.readability = None

C6_Witness ==
    /\ endpoint = "v1"
    /\ pc = "replied"
    /\ ~request.enable_readability
    /\ reply[1].code = OK
    /\ reply[1].body[1].solution.readability = None

\* the extraction was called and returned no content: None or ""
ExtractionEmpty ==
    /\ Count("extract") = 1
    /\ extracted_content \in {None, Some("")}

(* C7: with extraction enabled, an extraction that returns no content (empty *)
(* or none) does not fail the request: it goes on to HTTP 200 with           *)
(* readability absent.                                                       *)
C7_EmptyExtractionIsNotFatal ==
    ExtractionEmpty =>
        /\ raised = None
        /\ pc \in {"return", "returned", "replied"}
        /\ readability_obj = None
        /\ response /= None =>
              /\ response[1].message = "Success"
              /\ response[1].solution.readability = None
        /\ (endpoint = "v1" /\ reply /= None) => reply = Some(Reply(OK, "", response))

C7_Witness ==
    /\ endpoint = "v1"
    /\ pc = "replied"
    /\ request.enable_readability
    /\ Count("extract") = 1
    /\ extracted_content = Some("")
    /\ reply[1].code = OK
    /\ reply[1].body[1].solution.readability = None

\* the solver raised an error that is no timeout
SolverRaised ==
    /\ budgeted.op = "solve_captcha"
    /\ budgeted.result = "raised"

(* C8: an error of the solver that is unrelated to timing leaves the request *)
(* unmodified: it is not mapped to 408, the solver is not called again and   *)
(* no success response is produced.  Only a timeout is converted to a        *)
(* dedicated status.                                                         *)
C8_SolverErrorPropagates ==
    /\ SolverRaised =>
          /\ pc \in {"raised", "replied"}
          /\ raised = Some(OtherException("SolverError"))
          /\ response = None
          /\ Count("solve_captcha") = 1
          /\ reply /= None =>
                reply = Some(Reply(InternalServerError, "Internal Server Error", None))
    /\ (raised /= None /\ raised[1].type = "HTTPException") =>
          /\ budgeted.result = "timed out"
          /\ raised[1].status_code = RequestTimeout

C8_Witness ==
    /\ endpoint = "v1"
    /\ pc = "replied"
    /\ SolverRaised
    /\ reply[1].code = InternalServerError

(* C9: GET /health runs the probe (url https://google.com) through read_item *)
(* and, when the probe returns, replies 200 with the probe's user agent      *)
(* exactly when its solution.status is OK and 500 "Health check failed"      *)
(* otherwise.                                                                *)
C9_HealthFollowsProbeStatus ==
    endpoint = "health" =>
        /\ request.url = ProbeUrl
        /\ (reply /= None /\ response /= None) =>
              IF response[1].solution.status = OK
              THEN reply = Some(Reply(OK, "",
                        Some([user_agent |-> response[1].solution.user_agent])))
              ELSE reply = Some(Reply(InternalServerError, "Health check failed", None))
        /\ (reply /= None /\ reply[1].code = OK) =>
              response /= None /\ response[1].solution.status = OK

C9_Witness ==
    /\ endpoint = "health"
    /\ pc = "replied"
    /\ response /= None
    /\ response[1].solution.status = 403
    /\ reply = Some(Reply(InternalServerError, "Health check failed", None))
    /\ Count("goto") = 1

\* the state of the orchestrator at each position of read_item
Stage(p) ==
    CASE p = "idle" -> "None"
      [] p = "jitter" -> "Start"
      [] p = "goto" -> "Navigating"
      [] p \in {"domcontentloaded", "networkidle"} -> "LoadWaiting"
      [] p = "title" -> "ChallengeCheck"
      [] p = "solve" -> "ChallengeSolving"
      [] p \in {"cookies", "content", "extract"} -> "Extracting"
      [] p = "return" -> "Assembling"
      [] p = "returned" -> "Done"
      [] p = "raised" -> "Failed"
      [] p = "replied" -> IF raised = None THEN "Done" ELSE "Failed"

\* the order of the positions of read_item
Rank(p) ==
    CASE p = "idle" -> 0
      [] p = "jitter" -> 1
      [] p = "goto" -> 2
      [] p = "domcontentloaded" -> 3
      [] p = "networkidle" -> 4
      [] p = "title" -> 5
      [] p = "solve" -> 6
      [] p = "cookies" -> 7
      [] p = "content" -> 8
      [] p = "extract" -> 9
      [] p = "return" -> 10
      [] p \in {"returned", "raised"} -> 11
      [] p = "replied" -> 12

\* the steps of the orchestrator's state machine
StageSteps ==
    {<<"None", "Start">>, <<"Start", "Navigating">>,
     <<"Navigating", "LoadWaiting">>, <<"Navigating", "Failed">>,
     <<"LoadWaiting", "LoadWaiting">>, <<"LoadWaiting", "ChallengeCheck">>,
     <<"LoadWaiting", "Failed">>,
     <<"ChallengeCheck", "ChallengeSolving">>, <<"ChallengeCheck", "Extracting">>,
     <<"ChallengeSolving", "Extracting">>, <<"ChallengeSolving", "Failed">>,
     <<"Extracting", "Extracting">>, <<"Extracting", "Assembling">>,
     <<"Assembling", "Done">>, <<"Done", "Done">>, <<"Failed", "Failed">>}

Issued(b) == b.op /= "none"
InTimeoutUnit(b, seconds) ==
    IF b.op = "solve_captcha" THEN seconds
    ELSE (seconds * MillisPerSecond) \div Resolution

(* C11: all budgeted stages of a request draw from one deadline fixed at     *)
(* request start.  Right after creation the remaining time is > 0 and at     *)
(* most the budget d; it is never negative and never grows; the timeouts     *)
(* handed in turn to goto, the two load-state waits and the solver are, each *)
(* in the unit of its call, the deadline minus the time already used (0 once *)
(* the deadline has passed), so they never grow and none exceeds d.          *)
C11_OneShrinkingDeadline ==
    /\ [](pc = "jitter" =>
            /\ timer.deadline = request.max_timeout
            /\ Remaining(timer, now) > 0
            /\ Remaining(timer, now) <= request.max_timeout)
    /\ [](endpoint /= "none" =>
            /\ Remaining(timer, now) >= 0
            /\ Remaining(timer, now) <= request.max_timeout)
    /\ [][endpoint /= "none" =>
            /\ timer' = timer
            /\ Remaining(timer', now') <= Remaining(timer, now)]_vars
    /\ [][budgeted' /= budgeted =>
            /\ budgeted'.left =
                  (IF timer.deadline > now THEN timer.deadline - now ELSE 0)
            /\ budgeted'.timeout = InTimeoutUnit(budgeted', budgeted'.left)
            /\ budgeted'.left <= request.max_timeout
            /\ Issued(budgeted) => budgeted'.left <= budgeted.left]_vars

C11_Witness ==
    /\ budgeted.op = "solve_captcha"
    /\ budgeted.timeout = 1
    /\ request.max_timeout = 4
    /\ now > 0

\* page.goto has completed and returned `r`
NavigationReturned == Count("goto") = 1 /\ pc \notin {"goto", "raised"}

(* C13: when page.goto returns no response object the request does not fail: *)
(* the captured status is OK and the headers of the successful response are  *)
(* the empty mapping; when a response object is returned the headers of the  *)
(* successful response are exactly its headers.                              *)
C13_NoResponseDefaults ==
    /\ (budgeted.op = "goto" /\ budgeted.result = "completed") =>
          /\ pc = "domcontentloaded"
          /\ raised = None
          /\ page_request.isNone => status = OK
    /\ response /= None =>
          IF page_request.isNone
          THEN /\ response[1].solution.status = OK
               /\ response[1].solution.headers = {}
          ELSE /\ response[1].solution.headers = page_request.headers
               /\ response[1].solution.headers = {<<"server", "nginx">>}

C13_Witness ==
    /\ endpoint = "v1"
    /\ pc = "replied"
    /\ page_request.isNone
    /\ reply[1].code = OK
    /\ reply[1].body[1].solution.headers = {}
    /\ reply[1].body[1].solution.status = OK

\* the steps that follow the try block were taken
LaterSteps ==
    Count("cookies") + Count("content") + Count("extract") + Count("evaluate")

(* C15: a response with message "Success" is produced only after the        *)
(* navigation, both load-state waits and (when a challenge was detected)    *)
(* the solver have completed; once a request has failed with the 408        *)
(* timeout, no later step (cookies, content, extraction, user agent,        *)
(* response) is performed for it.                                           *)
C15_SuccessOnlyAfterStages ==
    /\ response /= None =>
          /\ response[1].message = "Success"
          /\ raised = None
          /\ Count("goto") = 1
          /\ Count("wait_for_load_state:domcontentloaded") = 1
          /\ Count("wait_for_load_state:networkidle") = 1
          /\ Count("title") = 1
          /\ title \in CHALLENGE_TITLES =>
                Count("solve_captcha") = 1 /\ budgeted.result = "completed"
          /\ title \notin CHALLENGE_TITLES =>
                budgeted.op = "wait_for_load_state:networkidle"
                /\ budgeted.result = "completed"
    /\ raised = Some(HTTPException(RequestTimeout, TimeoutDetail)) =>
          /\ pc \in {"raised", "replied"}
          /\ LaterSteps = 0
          /\ response = None
          /\ budgeted.result = "timed out"

C15_Witness ==
    /\ pc = "replied"
    /\ budgeted.op = "solve_captcha"
    /\ budgeted.result = "timed out"
    /\ raised = Some(HTTPException(RequestTimeout, TimeoutDetail))
    /\ LaterSteps = 0

(* C16: when no challenge title is detected and page.goto returned a        *)
(* response object, solution.status is that response's status unchanged,    *)
(* and the request is still a success (200, "Success") when that status is  *)
(* an error status: the page status never fails a POST /v1 request.         *)
C16_StatusPassedThrough ==
    /\ (NavigationReturned /\ ~page_request.isNone /\ Count("solve_captcha") = 0) =>
          status = page_request.status
    /\ (response /= None /\ ~page_request.isNone /\ title \notin CHALLENGE_TITLES) =>
          /\ response[1].solution.status = page_request.status
          /\ response[1].message = "Success"
          /\ (endpoint = "v1" /\ reply /= None) =>
                reply = Some(Reply(OK, "", response))

C16_Witness ==
    /\ endpoint = "v1"
    /\ pc = "replied"
    /\ title = "Example Domain"
    /\ page_request.status = 403
    /\ reply[1].code = OK
    /\ reply[1].body[1].message = "Success"
    /\ reply[1].body[1].solution.status = 403

(* C17: GET /health does not translate a failure of the probe: a probe that *)
(* fails with the timeout gives the same 408 with its detail, any other     *)
(* exception of the probe leaves health_check unchanged, and 500 "Health    *)
(* check failed" is sent only when the probe returned a status other than   *)
(* OK.                                                                      *)
C17_HealthPassesProbeFailure ==
    (endpoint = "health" /\ reply /= None) =>
        /\ raised = Some(HTTPException(RequestTimeout, TimeoutDetail)) =>
              reply = Some(Reply(RequestTimeout, TimeoutDetail, None))
        /\ (raised /= None /\ raised[1].type /= "HTTPException") =>
              reply = Some(Reply(InternalServerError, "Internal Server Error", None))
        /\ reply[1].detail = "Health check failed" =>
              /\ raised = None
              /\ response /= None
              /\ response[1].solution.status /= OK

C17_Witness ==
    /\ endpoint = "health"
    /\ pc = "replied"
    /\ raised = Some(HTTPException(RequestTimeout, TimeoutDetail))
    /\ reply = Some(Reply(RequestTimeout, TimeoutDetail, None))

\* `s` without its leading and trailing characters that are in `chars`
Trimmed(s, chars) ==
    LET keep == {i \in 1..Len(s) : s[i] \notin chars}
        first == CHOOSE i \in keep : \A j \in keep : i <= j
        last == CHOOSE i \in keep : \A j \in keep : i >= j
    IN IF keep = {} THEN <<>> ELSE SubSeq(s, first, last)

IsQuote(c) == c = "\""
NoQuote(c) == ~IsQuote(c)

\* the url that page.goto is handed
NavigatedUrl == request.url

(* C14, as claimed: the navigated url is the input with its leading and      *)
(* trailing quote characters and whitespace removed and its interior         *)
(* unchanged.                                                                *)
C14_SurroundingQuotesStripped ==
    Count("goto") = 1 =>
        NavigatedUrl = Trimmed(received_url, {"\"", " ", "\t"})

(* C14, amended: the navigated url is the input with every double quote      *)
(* removed, the interior ones too, and then its leading and trailing         *)
(* whitespace removed; every other character is unchanged.                   *)
C14_AllQuotesRemovedThenStripped ==
    endpoint /= "none" =>
        NavigatedUrl = Trimmed(SelectSeq(received_url, NoQuote), {" ", "\t"})

C14_Witness ==
    /\ Count("goto") = 1
    /\ received_url = <<" ", "a", "\"">>
    /\ NavigatedUrl = <<"a">>

\* request r is in flight: its call of read_item has begun and has not ended
InFlight(r) == inflight.reqs[r].pc \notin {"idle", "returned", "raised"}
Begun(r) == inflight.reqs[r].pc /= "idle"

\* what a request shows of itself: its stage, its status and its outcome
Shown(co) == <<co.pc, co.status, co.raised>>

(* C12: with several requests interleaved at their awaits, each request has *)
(* its own TimeoutBudget and its own page handle, no handle is used by two  *)
(* requests, and a request that fails changes neither the stage, the status *)
(* and the outcome nor the budget of any other request.                     *)
C12_RequestsAreIsolated ==
    /\ [](\A r \in RequestIds :
            /\ Begun(r) =>
                  inflight.timers[r] = TimeoutTimer(inflight.reqs[r].max_timeout, now)
            /\ Cardinality(inflight.users[r]) <= 1
            /\ \A q \in RequestIds \ {r} :
                  inflight.users[r] \cap inflight.users[q] = {})
    /\ [][\A r \in RequestIds :
            inflight'.reqs[r] /= inflight.reqs[r] =>
                \A q \in RequestIds \ {r} :
                    /\ Shown(inflight'.reqs[q]) = Shown(inflight.reqs[q])
                    /\ inflight'.timers[q] = inflight.timers[q]
                    /\ inflight'.users[q] \subseteq inflight.users[q] \cup {q}]_vars

C12_Witness ==
    /\ inflight.reqs[1].pc = "raised"
    /\ inflight.reqs[1].raised = Some(HTTPException(RequestTimeout, TimeoutDetail))
    /\ inflight.reqs[1].max_timeout = 1
    /\ inflight.reqs[2].pc = "returned"
    /\ inflight.reqs[2].max_timeout = MaxBudget
    /\ inflight.reqs[2].status = 403
    /\ inflight.users = [h \in RequestIds |-> IF h <= 2 THEN {h} ELSE {}]

====
